---- MODULE Spec2Model ----
(***************************************************************************)
(* Model of src/main.go: a chi/net-http service with five handlers over    *)
(* the PostgreSQL table "books" (id, title, author, isbn), and the         *)
(* interrupt-driven shutdown of the http.Server in main.                    *)
(***************************************************************************)
EXTENDS Integers, Sequences, FiniteSets, TLC

\* ------------------------------------------------------------------ bounds
\* Highest value the id sequence of the table may reach (caps INSERTs).
MaxSeq == 2
\* Highest number of requests in flight at once in the lifecycle model.
MaxInflight == 2

\* ---------------------------------------------------------------- constants
\* context.WithTimeout(context.Background(), 10*time.Second)
GraceSeconds == 10
StatusOK == 200
StatusCreated == 201
StatusBadRequest == 400
StatusInternalServerError == 500

VARIABLES
    books,      \* the table "books": the rows in heap order
    seq,        \* last value handed out by the id sequence of the table
    resp,       \* the request most recently answered: the request, whether the
                \* database failed under it, the rows its statement changed (the
                \* sql.Result the handlers drop), and what was written to w
    lastWrite,  \* history: per id, the last statement that wrote it, as
                \* [id, op, body of the request]
    inflight,   \* requests accepted by the listener whose handler has not returned
    listener,   \* "open" | "closed"
    stop,       \* number of signals buffered in the channel stop (capacity 1)
    shut,       \* the shutdown goroutine: "wait" | "polling" | "stopped"
    elapsed,    \* seconds since the shutdown context was created
    proc        \* "running" | "exited" (main returned) | "fatal" (log.Fatalf)

vars == <<books, seq, resp, lastWrite, inflight, listener, stop, shut, elapsed, proc>>
dbVars == <<books, seq, resp, lastWrite>>
lifeVars == <<listener, stop, shut, elapsed, proc>>

\* ------------------------------------------------------------- type Book
ZeroBook == [ID |-> 0, Title |-> "", Author |-> "", ISBN |-> ""]

\* ------------------------------------------------------ request bodies
\* A JSON value of a request body: a string or a number.
JStr(s) == [t |-> "string", s |-> s, n |-> 0]
JNum(n) == [t |-> "number", s |-> "", n |-> n]

JObject(f) == [kind |-> "object", fields |-> f]
Malformed == [kind |-> "malformed", fields |-> <<>>]
EmptyBody == [kind |-> "empty", fields |-> <<>>]

Fields(b) == IF b.kind = "object" THEN DOMAIN b.fields ELSE {}

\* json.NewDecoder(r.Body).Decode(&book): an empty body is io.EOF and a body that
\* is not valid JSON is a syntax error, both found before anything is stored; in a
\* valid object every key whose value has the Go field's type is stored, a value
\* of the wrong type is skipped and reported, a missing key leaves the zero value.
FieldOK(b, f, t) == f \in Fields(b) /\ b.fields[f].t = t
FieldBad(b, f, t) == f \in Fields(b) /\ b.fields[f].t # t
Decode(b) ==
    IF b.kind = "empty" THEN [book |-> ZeroBook, err |-> "EOF"]
    ELSE IF b.kind = "malformed"
    THEN [book |-> ZeroBook, err |-> "invalid character"]
    ELSE [book |->
            [ID     |-> IF FieldOK(b, "id", "number") THEN b.fields["id"].n ELSE 0,
             Title  |-> IF FieldOK(b, "title", "string") THEN b.fields["title"].s ELSE "",
             Author |-> IF FieldOK(b, "author", "string") THEN b.fields["author"].s ELSE "",
             ISBN   |-> IF FieldOK(b, "isbn", "string") THEN b.fields["isbn"].s ELSE ""],
          err |->
            IF FieldBad(b, "id", "number") \/ FieldBad(b, "title", "string")
               \/ FieldBad(b, "author", "string") \/ FieldBad(b, "isbn", "string")
            THEN "json: cannot unmarshal"
            ELSE ""]

\* --------------------------------------------------- the {id} path segment
\* chi.URLParam(r, "id") is a string; the statement parameter $n it is bound to is
\* compared with the integer column id, so the database reads it as an integer
\* and the statement fails when it is not one.
Digits == <<"0", "1", "2", "3", "4", "5", "6", "7", "8", "9">>
IsDigit(c) == \E d \in DOMAIN Digits : Digits[d] = c
DigitVal(c) == (CHOOSE d \in DOMAIN Digits : Digits[d] = c) - 1
IsInt(s) == Len(s) > 0 /\ \A i \in DOMAIN s : IsDigit(s[i])
RECURSIVE ParseInt(_)
ParseInt(s) ==
    IF Len(s) = 0 THEN 0
    ELSE 10 * ParseInt(SubSeq(s, 1, Len(s) - 1)) + DigitVal(s[Len(s)])

\* ------------------------------------------------- http.ResponseWriter
\* status 0: the header is not written yet. hdr is the Content-Type in the header
\* map, ctype the Content-Type that was sent with the status line.
NewWriter == [status |-> 0, hdr |-> "", ctype |-> "", body |-> <<>>]
SetContentType(w, ct) == [w EXCEPT !.hdr = ct]
\* A second WriteHeader is superfluous and ignored.
WriteHeader(w, code) ==
    IF w.status = 0 THEN [w EXCEPT !.status = code, !.ctype = w.hdr] ELSE w
\* The first Write sends status 200 when no header was written before it.
Write(w, chunk) ==
    LET h == WriteHeader(w, StatusOK) IN [h EXCEPT !.body = Append(h.body, chunk)]
Text(s) == [kind |-> "text", text |-> s, items |-> <<>>]
\* http.Error(w, msg, code)
HttpError(w, msg, code) ==
    Write(WriteHeader(SetContentType(w, "text/plain"), code), Text(msg))

\* ------------------------------------------------------- encoding/json
\* var books []Book is the nil slice; append allocates.
NilSlice == [isNil |-> TRUE, elems |-> <<>>]
AppendSlice(s, b) == [isNil |-> FALSE, elems |-> Append(s.elems, b)]
\* json.NewEncoder(w).Encode(v): a struct is an object, a nil slice is null,
\* any other slice is an array.
EncodeBook(b) == [kind |-> "object", text |-> "", items |-> <<b>>]
EncodeBooks(s) ==
    IF s.isNil THEN [kind |-> "null", text |-> "", items |-> <<>>]
    ELSE [kind |-> "array", text |-> "", items |-> s.elems]

\* ------------------------------------------------ the statements on books
\* SELECT id, title, author, isbn FROM books
SelectAll(tbl) == tbl
\* SELECT id, title, author, isbn FROM books WHERE id = $1
SelectById(tbl, n) == SelectSeq(tbl, LAMBDA r : r.id = n)
\* Mutant: the INSERT names the column id and takes it from the body.
InsertRowBodyId(tbl, nextval, book) ==
    Append(tbl, [id |-> book.ID, title |-> book.Title,
                 author |-> book.Author, isbn |-> book.ISBN])
\* INSERT INTO books (title, author, isbn) VALUES ($1, $2, $3): the column id is
\* not in the column list, so it takes the next value of the sequence, nextval.
InsertRow(tbl, nextval, book) ==
    Append(tbl, [id |-> nextval, title |-> book.Title,
                 author |-> book.Author, isbn |-> book.ISBN])
\* Mutant: an upsert, which creates the row when no row has the id.
UpsertRows(tbl, book, n) ==
    IF \E i \in DOMAIN tbl : tbl[i].id = n
    THEN [i \in DOMAIN tbl |->
            IF tbl[i].id = n
            THEN [tbl[i] EXCEPT !.title = book.Title, !.author = book.Author,
                                !.isbn = book.ISBN]
            ELSE tbl[i]]
    ELSE Append(tbl, [id |-> n, title |-> book.Title,
                      author |-> book.Author, isbn |-> book.ISBN])
\* Mutant: the UPDATE also sets id, from the body.
UpdateRowsSetId(tbl, book, n) ==
    [i \in DOMAIN tbl |->
        IF tbl[i].id = n
        THEN [id |-> book.ID, title |-> book.Title, author |-> book.Author,
              isbn |-> book.ISBN]
        ELSE tbl[i]]
\* UPDATE books SET title = $1, author = $2, isbn = $3 WHERE id = $4
UpdateRows(tbl, book, n) ==
    [i \in DOMAIN tbl |->
        IF tbl[i].id = n
        THEN [tbl[i] EXCEPT !.title = book.Title, !.author = book.Author,
                            !.isbn = book.ISBN]
        ELSE tbl[i]]
\* Mutant: the WHERE clause is inverted (id <> $1).
DeleteOtherRows(tbl, n) == SelectSeq(tbl, LAMBDA r : r.id = n)
\* Mutant: the WHERE clause is missing.
DeleteAllRows(tbl, n) == <<>>
\* DELETE FROM books WHERE id = $1
DeleteRows(tbl, n) == SelectSeq(tbl, LAMBDA r : r.id # n)

\* Mutant: the destinations of title and author are swapped.
ScanSwapped(r) ==
    [ID |-> r.id, Title |-> r.author, Author |-> r.title, ISBN |-> r.isbn]
\* rows.Scan(&b.ID, &b.Title, &b.Author, &b.ISBN)
Scan(r) == [ID |-> r.id, Title |-> r.title, Author |-> r.author, ISBN |-> r.isbn]
\* for rows.Next() { ...; books = append(books, b) }
RECURSIVE ScanAll(_, _)
ScanAll(rows, slice) ==
    IF Len(rows) = 0 THEN slice
    ELSE ScanAll(Tail(rows), AppendSlice(slice, Scan(Head(rows))))

\* Why a statement with the path parameter id fails: the database failed
\* (fail), or id is not an integer; "" when it is executed.
ExecErr(id, fail) ==
    IF fail # "none" THEN "driver: bad connection"
    ELSE IF ~IsInt(id) THEN "pq: invalid input syntax for type integer"
    ELSE ""

\* ------------------------------------------------------------- requests
\* The ids the sequence can hand out, as path segments, and a segment that is
\* no integer.
PathIds == {<<Digits[i + 1]>> : i \in 1 .. MaxSeq} \cup {<<"x">>}

Dune == JObject([f \in {"title", "author", "isbn"} |->
                    CASE f = "title" -> JStr("Dune")
                      [] f = "author" -> JStr("Herbert")
                      [] f = "isbn" -> JStr("123")])
Dune2 == JObject([f \in {"id", "title", "author", "isbn"} |->
                    CASE f = "id" -> JNum(2)
                      [] f = "title" -> JStr("Dune2")
                      [] f = "author" -> JStr("Herbert")
                      [] f = "isbn" -> JStr("123")])
\* "title" is a number: a type error that leaves author and isbn decoded.
BadTitle == JObject([f \in {"title", "author", "isbn"} |->
                    CASE f = "title" -> JNum(5)
                      [] f = "author" -> JStr("Herbert")
                      [] f = "isbn" -> JStr("123")])
Bodies == {Dune, Dune2, BadTitle, Malformed, EmptyBody}

Req(op, id, body) == [op |-> op, id |-> id, body |-> body]
NoRequest == Req("none", <<>>, EmptyBody)
\* The routes of main: r.Get, r.Get, r.Post, r.Put, r.Delete.
Requests ==
    {Req("getBooks", <<>>, EmptyBody)}
    \cup {Req("getBook", id, EmptyBody) : id \in PathIds}
    \cup {Req("createBook", <<>>, b) : b \in Bodies}
    \cup {Req("updateBook", id, b) : id \in PathIds, b \in Bodies}
    \cup {Req("deleteBook", id, EmptyBody) : id \in PathIds}

HasRow(tbl, n) == \E i \in DOMAIN tbl : tbl[i].id = n
Answer(req, fail, affected, w) ==
    [req |-> req, fail |-> fail, affected |-> affected, w |-> w]
Matching(tbl, n) == Cardinality({i \in DOMAIN tbl : tbl[i].id = n})
\* lastWrite after the statement op, sent with body, wrote the row n.
Record(n, op, body) ==
    {p \in lastWrite : p.id # n} \cup {[id |-> n, op |-> op, body |-> body]}

\* ------------------------------------------------------------- handlers
getBooks(req, fail) ==
    LET rows == SelectAll(books) IN
    /\ resp' = Answer(req, fail, 0,
         IF fail = "query"
         THEN HttpError(NewWriter, "driver: bad connection", StatusInternalServerError)
         ELSE IF fail = "scan" /\ Len(rows) > 0
         THEN HttpError(NewWriter, "sql: Scan error", StatusInternalServerError)
         ELSE Write(SetContentType(NewWriter, "application/json"),
                    EncodeBooks(ScanAll(rows, NilSlice))))
    /\ UNCHANGED <<books, seq, lastWrite>>

getBook(req, fail) ==
    LET err == ExecErr(req.id, fail)
        rows == IF err = "" THEN SelectById(books, ParseInt(req.id)) ELSE <<>>
    IN
    /\ resp' = Answer(req, fail, 0,
         IF err # "" THEN HttpError(NewWriter, err, StatusInternalServerError)
         ELSE IF Len(rows) = 0
         THEN HttpError(NewWriter, "sql: no rows in result set",
                        StatusInternalServerError)
         ELSE Write(SetContentType(NewWriter, "application/json"),
                    EncodeBook(Scan(rows[1]))))
    /\ UNCHANGED <<books, seq, lastWrite>>

\* Mutant: createBook returns after the decode error, as updateBook does.
createBookReturns(req, fail) ==
    LET d == Decode(req.body) IN
    IF d.err # ""
    THEN /\ resp' = Answer(req, fail, 0, HttpError(NewWriter, d.err, StatusBadRequest))
         /\ UNCHANGED <<books, seq, lastWrite>>
    ELSE IF fail # "none"
    THEN /\ resp' = Answer(req, fail, 0,
                HttpError(NewWriter, "driver: bad connection",
                          StatusInternalServerError))
         /\ UNCHANGED <<books, seq, lastWrite>>
    ELSE /\ seq < MaxSeq
         /\ seq' = seq + 1
         /\ books' = InsertRow(books, seq + 1, d.book)
         /\ lastWrite' = Record(seq + 1, "POST", req.body)
         /\ resp' = Answer(req, fail, 1,
                Write(WriteHeader(NewWriter, StatusCreated),
                      Text("Book created successfully")))

createBook(req, fail) ==
    LET d == Decode(req.body)
        \* no return after the decode error
        w1 == IF d.err # "" THEN HttpError(NewWriter, d.err, StatusBadRequest)
              ELSE NewWriter
    IN
    IF fail # "none"
    THEN /\ resp' = Answer(req, fail, 0,
                HttpError(w1, "driver: bad connection", StatusInternalServerError))
         /\ UNCHANGED <<books, seq, lastWrite>>
    ELSE /\ seq < MaxSeq
         /\ seq' = seq + 1
         /\ books' = InsertRow(books, seq + 1, d.book)
         /\ lastWrite' = Record(seq + 1, "POST", req.body)
         /\ resp' = Answer(req, fail, 1,
                Write(WriteHeader(w1, StatusCreated), Text("Book created successfully")))

\* Mutant: updateBook goes on after the decode error, as createBook does.
updateBookContinues(req, fail) ==
    LET d == Decode(req.body)
        err == ExecErr(req.id, fail)
        n == ParseInt(req.id)
        w1 == IF d.err # "" THEN HttpError(NewWriter, d.err, StatusBadRequest)
              ELSE NewWriter
    IN
    IF err # ""
    THEN /\ resp' = Answer(req, fail, 0,
                HttpError(w1, err, StatusInternalServerError))
         /\ UNCHANGED <<books, seq, lastWrite>>
    ELSE /\ books' = UpdateRows(books, d.book, n)
         /\ lastWrite' = IF HasRow(books, n) THEN Record(n, "PUT", req.body)
                         ELSE lastWrite
         /\ resp' = Answer(req, fail, Matching(books, n),
                Write(SetContentType(w1, "application/json"), EncodeBook(d.book)))
         /\ UNCHANGED seq

updateBook(req, fail) ==
    LET d == Decode(req.body)
        err == ExecErr(req.id, fail)
        n == ParseInt(req.id)
    IN
    IF d.err # ""
    THEN /\ resp' = Answer(req, fail, 0, HttpError(NewWriter, d.err, StatusBadRequest))
         /\ UNCHANGED <<books, seq, lastWrite>>
    ELSE IF err # ""
    THEN /\ resp' = Answer(req, fail, 0,
                HttpError(NewWriter, err, StatusInternalServerError))
         /\ UNCHANGED <<books, seq, lastWrite>>
    ELSE /\ books' = UpdateRows(books, d.book, n)
         /\ lastWrite' = IF HasRow(books, n) THEN Record(n, "PUT", req.body)
                         ELSE lastWrite
         /\ resp' = Answer(req, fail, Matching(books, n),
                Write(SetContentType(NewWriter, "application/json"), EncodeBook(d.book)))
         /\ UNCHANGED seq

deleteBook(req, fail) ==
    LET err == ExecErr(req.id, fail)
        n == ParseInt(req.id)
    IN
    IF err # ""
    THEN /\ resp' = Answer(req, fail, 0,
                HttpError(NewWriter, err, StatusInternalServerError))
         /\ UNCHANGED <<books, seq, lastWrite>>
    ELSE /\ books' = DeleteRows(books, n)
         /\ lastWrite' = Record(n, "DELETE", req.body)
         /\ resp' = Answer(req, fail, Matching(books, n),
                Write(WriteHeader(NewWriter, StatusOK), Text("Book deleted successfully")))
         /\ UNCHANGED seq

\* ----------------------------------------------------------------- Init
Init ==
    /\ books = <<>>
    /\ seq = 0
    /\ resp = Answer(NoRequest, "none", 0, NewWriter)
    /\ lastWrite = {}
    /\ inflight = {}
    /\ listener = "open"
    /\ stop = 0
    /\ shut = "wait"
    /\ elapsed = 0
    /\ proc = "running"

Fails == {"none", "db"}
QueryFails == {"none", "query", "scan"}
Of(op) == {req \in Requests : req.op = op}
Serving == proc = "running" /\ listener = "open"

\* ------------------------------------------- one request, start to finish
\* Each handler issues one statement, so a request acts on the table at one
\* point: any interleaving of requests is a sequence of these steps.
ServeGetBooks ==
    /\ Serving
    /\ \E req \in Of("getBooks"), fail \in QueryFails : getBooks(req, fail)
    /\ UNCHANGED <<inflight, lifeVars>>
ServeGetBook ==
    /\ Serving
    /\ \E req \in Of("getBook"), fail \in Fails : getBook(req, fail)
    /\ UNCHANGED <<inflight, lifeVars>>
ServeCreateBook ==
    /\ Serving
    /\ \E req \in Of("createBook"), fail \in Fails : createBook(req, fail)
    /\ UNCHANGED <<inflight, lifeVars>>
ServeUpdateBook ==
    /\ Serving
    /\ \E req \in Of("updateBook"), fail \in Fails : updateBook(req, fail)
    /\ UNCHANGED <<inflight, lifeVars>>
ServeDeleteBook ==
    /\ Serving
    /\ \E req \in Of("deleteBook"), fail \in Fails : deleteBook(req, fail)
    /\ UNCHANGED <<inflight, lifeVars>>

Next ==
    \/ ServeGetBooks
    \/ ServeGetBook
    \/ ServeCreateBook
    \/ ServeUpdateBook
    \/ ServeDeleteBook

Spec == Init /\ [][Next]_vars

\* ------------------------------------------------- the server's lifecycle
\* The requests of the lifecycle model: one of each route.
LifeRequests ==
    {Req("getBooks", <<>>, EmptyBody), Req("getBook", <<"1">>, EmptyBody),
     Req("createBook", <<>>, Dune), Req("updateBook", <<"1">>, Dune2),
     Req("deleteBook", <<"1">>, EmptyBody)}

\* srv.ListenAndServe accepts a connection and starts its handler.
Accept ==
    /\ Serving
    /\ Cardinality(inflight) < MaxInflight
    /\ \E req \in LifeRequests \ inflight : inflight' = inflight \cup {req}
    /\ UNCHANGED <<dbVars, lifeVars>>

\* A handler in flight runs to its end; the process must still be alive.
Finish(req) == inflight' = inflight \ {req} /\ UNCHANGED lifeVars
FinishGetBooks ==
    /\ proc = "running"
    /\ \E req \in inflight, fail \in QueryFails :
          req.op = "getBooks" /\ getBooks(req, fail) /\ Finish(req)
FinishGetBook ==
    /\ proc = "running"
    /\ \E req \in inflight, fail \in Fails :
          req.op = "getBook" /\ getBook(req, fail) /\ Finish(req)
FinishCreateBook ==
    /\ proc = "running"
    /\ \E req \in inflight, fail \in Fails :
          req.op = "createBook" /\ createBook(req, fail) /\ Finish(req)
FinishUpdateBook ==
    /\ proc = "running"
    /\ \E req \in inflight, fail \in Fails :
          req.op = "updateBook" /\ updateBook(req, fail) /\ Finish(req)
FinishDeleteBook ==
    /\ proc = "running"
    /\ \E req \in inflight, fail \in Fails :
          req.op = "deleteBook" /\ deleteBook(req, fail) /\ Finish(req)

\* os.Interrupt arrives: signal.Notify sends on stop without blocking, and the
\* signal is dropped when the buffer of one is full.
Interrupt ==
    /\ proc = "running"
    /\ stop = 0
    /\ stop' = 1
    /\ UNCHANGED <<dbVars, inflight, listener, shut, elapsed, proc>>

\* <-stop; context.WithTimeout(..., 10*time.Second); srv.Shutdown(ctx) closes the
\* listener and starts polling for the connections to become idle.
ShutdownBegin ==
    /\ proc = "running"
    /\ shut = "wait"
    /\ stop = 1
    /\ stop' = 0
    /\ listener' = "closed"
    /\ elapsed' = 0
    /\ shut' = "polling"
    /\ UNCHANGED <<dbVars, inflight, proc>>

\* Shutdown's loop: no connection is busy, so it returns nil ("Server stopped");
\* otherwise it waits for the poll timer or for ctx.Done().
ShutdownPoll ==
    /\ proc = "running"
    /\ shut = "polling"
    /\ shut' = IF inflight = {} THEN "stopped" ELSE "select"
    /\ UNCHANGED <<dbVars, inflight, listener, stop, elapsed, proc>>
ShutdownPollTimer ==
    /\ proc = "running"
    /\ shut = "select"
    /\ shut' = "polling"
    /\ UNCHANGED <<dbVars, inflight, listener, stop, elapsed, proc>>
\* ctx.Done(): Shutdown returns the context's error and log.Fatalf exits.
ShutdownTimeout ==
    /\ proc = "running"
    /\ shut = "select"
    /\ elapsed = GraceSeconds
    /\ proc' = "fatal"
    /\ UNCHANGED <<dbVars, inflight, listener, stop, shut, elapsed>>
\* A second of the shutdown context's 10 passes.
Tick ==
    /\ proc = "running"
    /\ shut \in {"polling", "select"}
    /\ elapsed < GraceSeconds
    /\ elapsed' = elapsed + 1
    /\ UNCHANGED <<dbVars, inflight, listener, stop, shut, proc>>

\* ListenAndServe returns http.ErrServerClosed as soon as Shutdown has closed the
\* listener; the error is not reported and main returns, which ends the process
\* with every goroutine in it.
MainReturn ==
    /\ proc = "running"
    /\ listener = "closed"
    /\ proc' = "exited"
    /\ UNCHANGED <<dbVars, inflight, listener, stop, shut, elapsed>>

LifeNext ==
    \/ Accept
    \/ FinishGetBooks
    \/ FinishGetBook
    \/ FinishCreateBook
    \/ FinishUpdateBook
    \/ FinishDeleteBook
    \/ Interrupt
    \/ ShutdownBegin
    \/ ShutdownPoll
    \/ ShutdownPollTimer
    \/ ShutdownTimeout
    \/ Tick
    \/ MainReturn

LifeSpec == Init /\ [][LifeNext]_vars

\* ================================================================ properties
\* What a request body says, read off the JSON itself.
Decodable(b) ==
    /\ b.kind = "object"
    /\ \A f \in DOMAIN b.fields :
          b.fields[f].t = (IF f = "id" THEN "number" ELSE "string")
Sent(b, f) == IF f \in Fields(b) THEN b.fields[f].s ELSE ""
\* The book with id n and the title, author and isbn of body b.
BookOf(n, b) ==
    [ID |-> n, Title |-> Sent(b, "title"), Author |-> Sent(b, "author"),
     ISBN |-> Sent(b, "isbn")]
\* The row a path segment names, 0 when it names none.
PathRow(id) == IF IsInt(id) THEN ParseInt(id) ELSE 0
JsonObject(w) == Len(w.body) = 1 /\ w.body[1].kind = "object"
ErrorText(w) ==
    Len(w.body) = 1 /\ w.body[1].kind = "text" /\ w.body[1].text # ""

\* C1: a GET /books answered 200 lists, for every row created by a POST with a
\* decodable body P and neither updated nor deleted since, an entry with P's
\* title, author and isbn under the id the sequence gave the row, not P's id.
C1_PostThenList ==
    (resp.req.op = "getBooks" /\ resp.w.status = StatusOK) =>
        \A p \in lastWrite :
            (p.op = "POST" /\ Decodable(p.body)) =>
                /\ resp.w.body[1].kind = "array"
                /\ \E i \in DOMAIN resp.w.body[1].items :
                      resp.w.body[1].items[i] = BookOf(p.id, p.body)
C1_Witness ==
    /\ resp.req.op = "getBooks"
    /\ resp.w.status = StatusOK
    /\ \E p \in lastWrite :
          /\ p.op = "POST"
          /\ Decodable(p.body)
          /\ "id" \in Fields(p.body)
          /\ p.body.fields["id"].n # p.id

\* C2: a GET /books/{id} that the database answers, when the last write to the
\* row id was a successful POST or PUT with body B, is answered 200 with the
\* book of that id carrying exactly B's title, author and isbn.
C2_ReadYourWrite ==
    (resp.req.op = "getBook" /\ resp.fail = "none") =>
        \A p \in lastWrite :
            (p.id = PathRow(resp.req.id) /\ p.op \in {"POST", "PUT"}
             /\ Decodable(p.body)) =>
                /\ resp.w.status = StatusOK
                /\ resp.w.body = <<EncodeBook(BookOf(p.id, p.body))>>
C2_Witness ==
    /\ resp.req.op = "getBook"
    /\ resp.fail = "none"
    /\ resp.w.status = StatusOK
    /\ \E p \in lastWrite :
          p.id = PathRow(resp.req.id) /\ p.op = "PUT" /\ p.body = Dune2

\* C3: a PUT /books/{id} with a decodable body B whose statement is executed is
\* answered 200 with B's title, author and isbn, whether or not a row has that
\* id; when none has, the table is left as it was.
C3_PutEchoes ==
    [][(resp'.req.op = "updateBook" /\ Decodable(resp'.req.body)
        /\ resp'.fail = "none" /\ IsInt(resp'.req.id)) =>
            /\ resp'.w.status = StatusOK
            /\ JsonObject(resp'.w)
            /\ LET echo == resp'.w.body[1].items[1] IN
                 /\ echo.Title = Sent(resp'.req.body, "title")
                 /\ echo.Author = Sent(resp'.req.body, "author")
                 /\ echo.ISBN = Sent(resp'.req.body, "isbn")
            /\ (~HasRow(books, ParseInt(resp'.req.id)) => books' = books)]_vars
C3_Witness ==
    /\ resp.req.op = "updateBook"
    /\ resp.w.status = StatusOK
    /\ resp.affected = 0
    /\ Len(books) > 0
    /\ JsonObject(resp.w)
    /\ resp.w.body[1].items[1].Title = "Dune2"

\* C4: a GET /books/{id}, when the last write to the row id was a DELETE that
\* succeeded, is answered 500 with an error text, never 200 with a book.
C4_GetAfterDelete ==
    (resp.req.op = "getBook"
     /\ \E p \in lastWrite : p.id = PathRow(resp.req.id) /\ p.op = "DELETE") =>
        /\ resp.w.status = StatusInternalServerError
        /\ ErrorText(resp.w)
C4_Witness ==
    /\ resp.req.op = "getBook"
    /\ resp.fail = "none"
    /\ PathRow(resp.req.id) \in 1 .. seq
    /\ \E p \in lastWrite : p.id = PathRow(resp.req.id) /\ p.op = "DELETE"
    /\ resp.w.body = <<Text("sql: no rows in result set")>>

\* C5: a DELETE /books/{id} that the database executes for an id no row has (the
\* row was deleted before, or never existed) is answered 200 with the
\* confirmation text and leaves the table as it was.
C5_DeleteIdempotent ==
    [][(resp'.req.op = "deleteBook" /\ resp'.fail = "none" /\ IsInt(resp'.req.id)
        /\ ~HasRow(books, PathRow(resp'.req.id))) =>
            /\ resp'.w.status = StatusOK
            /\ resp'.w.body = <<Text("Book deleted successfully")>>
            /\ books' = books]_vars
\* the row was there, was deleted, and is deleted again
C5_Witness ==
    /\ resp.req.op = "deleteBook"
    /\ resp.w.status = StatusOK
    /\ resp.affected = 0
    /\ PathRow(resp.req.id) \in 1 .. seq
    /\ Len(books) > 0

\* C6: a POST /books whose body does not decode is answered 400 with the decode
\* error first in the body, and still runs the INSERT with the fields that were
\* decoded: unless the database fails, the table gains that row; the status is
\* 400 either way, never 201.
C6_CreateContinues ==
    [][(resp'.req.op = "createBook" /\ ~Decodable(resp'.req.body)) =>
            /\ resp'.w.status = StatusBadRequest
            /\ Len(resp'.w.body) = 2
            /\ resp'.w.body[1].kind = "text" /\ resp'.w.body[1].text # ""
            /\ IF resp'.fail = "none"
               THEN /\ Len(books') = Len(books) + 1
                    /\ SubSeq(books', 1, Len(books)) = books
                    /\ LET row == books'[Len(books')]
                           b == resp'.req.body
                       IN  /\ row.title = (IF FieldOK(b, "title", "string")
                                           THEN Sent(b, "title") ELSE "")
                           /\ row.author = (IF FieldOK(b, "author", "string")
                                            THEN Sent(b, "author") ELSE "")
                           /\ row.isbn = (IF FieldOK(b, "isbn", "string")
                                          THEN Sent(b, "isbn") ELSE "")
               ELSE books' = books]_vars
C6_Witness ==
    /\ resp.req.op = "createBook"
    /\ resp.req.body = Malformed
    /\ resp.w.status = StatusBadRequest
    /\ resp.affected = 1
    /\ Len(books) > 0
    /\ books[Len(books)].title = ""
    /\ books[Len(books)].author = ""
    /\ books[Len(books)].isbn = ""

\* C7: a GET /books whose query succeeds is answered 200 with a JSON array of
\* the books, the empty array when the table has no rows.
C7_ListIsArray ==
    (resp.req.op = "getBooks" /\ resp.w.status = StatusOK) =>
        /\ Len(resp.w.body) = 1
        /\ resp.w.body[1].kind = "array"
        /\ Len(resp.w.body[1].items) = Len(books)

\* C9: a PUT /books/{id} whose body does not decode is answered 400 with the
\* error text alone and runs no statement: the table is as it was.
C9_UpdateStops ==
    [][(resp'.req.op = "updateBook" /\ ~Decodable(resp'.req.body)) =>
            /\ resp'.w.status = StatusBadRequest
            /\ ErrorText(resp'.w)
            /\ resp'.affected = 0
            /\ books' = books]_vars
C9_Witness ==
    /\ resp.req.op = "updateBook"
    /\ resp.req.body = BadTitle
    /\ resp.w.status = StatusBadRequest
    /\ HasRow(books, PathRow(resp.req.id))

\* C10: no two rows share an id, and no request changes the id of a row: an
\* update leaves every row's id, also when the body carries another id; a
\* create keeps the rows there and gives the new one the next id of the
\* sequence, not the body's; a delete keeps the other rows; list and get change
\* nothing.
UniqueIds(tbl) == \A i, j \in DOMAIN tbl : tbl[i].id = tbl[j].id => i = j
IdsOf(tbl) == [i \in DOMAIN tbl |-> tbl[i].id]
C10_IdsUniqueImmutable ==
    [][/\ UniqueIds(books')
       /\ resp'.req.op = "updateBook" => IdsOf(books') = IdsOf(books)
       /\ resp'.req.op = "createBook" =>
             \/ books' = books
             \/ /\ SubSeq(books', 1, Len(books)) = books
                /\ Len(books') = Len(books) + 1
                /\ books'[Len(books')].id = seq'
                /\ ~HasRow(books, seq')
       /\ resp'.req.op = "deleteBook" =>
             books' = SelectSeq(books, LAMBDA r : HasRow(books', r.id))
       /\ resp'.req.op \in {"getBooks", "getBook"} => books' = books]_vars
C10_Witness ==
    /\ resp.req.op = "updateBook"
    /\ resp.affected = 1
    /\ Len(books) = 2
    /\ "id" \in Fields(resp.req.body)
    /\ resp.req.body.fields["id"].n # PathRow(resp.req.id)

\* C8: after an interrupt the listener is closed and the process goes on until
\* no request is in flight; it ends with requests in flight only when the 10
\* seconds of grace are over, and then by the fatal shutdown error.
C8_GracefulShutdown ==
    /\ shut # "wait" => listener = "closed"
    /\ (proc # "running" /\ inflight # {}) =>
          (proc = "fatal" /\ elapsed = GraceSeconds)
    /\ proc = "fatal" => elapsed = GraceSeconds

====
